---------------------------- MODULE Spec2Model ----------------------------
(***************************************************************************)
(* A state-machine model of the dump1090 Prometheus exporter               *)
(* (Dump1090Exporter in src/src/dump1090exporter/exporter.py, the metric   *)
(* table Specs in src/dump1090exporter/metrics.py).                        *)
(*                                                                         *)
(* The exporter runs on one asyncio event loop.  A coroutine runs without  *)
(* interruption from one await to the next, so every action below is one   *)
(* such step of one coroutine: a step of an updater task, of start() or    *)
(* of stop().                                                              *)
(*                                                                         *)
(* Conventions                                                             *)
(*  - JSON / Python values are tagged records: None, Num(n), List(s).      *)
(*    Python dicts read from JSON are TLA+ functions over strings; key     *)
(*    presence is membership in DOMAIN.                                    *)
(*  - The dicts the program builds and iterates (self.metrics) are ordered *)
(*    dicts: sequences of <<key, value>> pairs in insertion order.         *)
(*  - An operator that models code which may raise returns a record with   *)
(*    a field exc: "" when nothing was raised, else the exception's type.  *)
(*  - Angles are in hundredths of a degree, distances in metres, both      *)
(*    rounded to the nearest integer.                                      *)
(***************************************************************************)
EXTENDS Integers, Sequences, FiniteSets, TLC

(***************************************************************************)
(* Bounds of the model                                                     *)
(***************************************************************************)
\* the number of start() calls in one run
MaxStarts == 1
MaxRestarts == 2
\* the largest time (in seconds) a cycle's fetch and transform may take
\* beyond the longest configured interval
MaxOverrun == 1

(***************************************************************************)
(* Program constants                                                       *)
(***************************************************************************)
aircraft_interval == 10
stats_interval == 60
receiver_interval == 10
receiver_interval_origin_ok == 300
\* process_aircraft(self, aircraft, threshold=15)
threshold == 15
prefix == "dump1090_"

(***************************************************************************)
(* Python values                                                           *)
(***************************************************************************)
None == [t |-> "null"]
Num(n) == [t |-> "num", n |-> n]
List(s) == [t |-> "list", items |-> s]
\* math.nan
NaN == [t |-> "nan"]

Str(x) == [t |-> "str", s |-> x]

IsNum(v) == v.t = "num"
IsList(v) == v.t = "list"

\* bool(v) as Python's `if v:` and `v and ...` take it
Truthy(v) ==
    CASE v.t = "null" -> FALSE
      [] v.t = "num"  -> v.n # 0
      [] v.t = "list" -> Len(v.items) > 0
      [] v.t = "str"  -> v.s # ""
      [] OTHER        -> TRUE

\* An ordered dict: a sequence of <<key, value>> pairs.
DictKeys(d) == { d[i][1] : i \in 1..Len(d) }
DictGet(d, k) == d[CHOOSE i \in 1..Len(d) : d[i][1] = k][2]
\* d[k] = v : replaces the value in place, or appends a new key
DictSet(d, k, v) ==
    IF k \in DictKeys(d)
    THEN [i \in 1..Len(d) |-> IF d[i][1] = k THEN <<k, v>> ELSE d[i]]
    ELSE Append(d, <<k, v>>)

(***************************************************************************)
(* metrics.py: Specs.  Each entry is <<internal name, exposition label>>;  *)
(* the help string has no effect on behaviour and is left out.             *)
(***************************************************************************)
SpecsAircraft ==
    << <<"observed", "recent_aircraft_observed">>,
       <<"observed_with_pos", "recent_aircraft_with_position">>,
       <<"observed_with_mlat", "recent_aircraft_with_multilateration">>,
       <<"max_range", "aircraft_recent_max_range">>,
       <<"messages_total", "messages_total">> >>

SpecsStats ==
    << <<"", << <<"messages", "stats_messages_total">> >> >>,
       <<"cpr",
         << <<"airborne", "stats_cpr_airborne">>,
            <<"surface", "stats_cpr_surface">>,
            <<"filtered", "stats_cpr_filtered">>,
            <<"global_bad", "stats_cpr_global_bad">>,
            <<"global_ok", "stats_cpr_global_ok">>,
            <<"global_range", "stats_cpr_global_range">>,
            <<"global_skipped", "stats_cpr_global_skipped">>,
            <<"global_speed", "stats_cpr_global_speed">>,
            <<"local_aircraft_relative", "stats_cpr_local_aircraft_relative">>,
            <<"local_ok", "stats_cpr_local_ok">>,
            <<"local_range", "stats_cpr_local_range">>,
            <<"local_receiver_relative", "stats_cpr_local_receiver_relative">>,
            <<"local_skipped", "stats_cpr_local_skipped">>,
            <<"local_speed", "stats_cpr_local_speed">> >> >>,
       <<"cpu",
         << <<"background", "stats_cpu_background_milliseconds">>,
            <<"demod", "stats_cpu_demod_milliseconds">>,
            <<"reader", "stats_cpu_reader_milliseconds">> >> >>,
       <<"local",
         << <<"accepted", "stats_local_accepted">>,
            <<"signal", "stats_local_signal_strength_dbFS">>,
            <<"peak_signal", "stats_local_peak_signal_strength_dbFS">>,
            <<"noise", "stats_local_noise_level_dbFS">>,
            <<"strong_signals", "stats_local_strong_signals">>,
            <<"bad", "stats_local_bad">>,
            <<"modes", "stats_local_modes">>,
            <<"modeac", "stats_local_modeac">>,
            <<"samples_dropped", "stats_local_samples_dropped">>,
            <<"samples_processed", "stats_local_samples_processed">>,
            <<"unknown_icao", "stats_local_unknown_icao">> >> >>,
       <<"remote",
         << <<"accepted", "stats_remote_accepted">>,
            <<"bad", "stats_remote_bad">>,
            <<"modeac", "stats_remote_modeac">>,
            <<"modes", "stats_remote_modes">>,
            <<"unknown_icao", "stats_remote_unknown_icao">> >> >>,
       <<"tracks",
         << <<"all", "stats_tracks_all">>,
            <<"single_message", "stats_tracks_single_message">> >> >> >>

AircraftKeys ==
    { "altitude", "category", "flight", "hex", "lat", "lon", "messages",
      "mlat", "nucp", "rssi", "seen", "seen_pos", "speed", "squalk", "tisb",
      "track", "vert_rate", "rel_angle", "rel_direction" }

(***************************************************************************)
(* Geospatial helpers                                                      *)
(***************************************************************************)
Abs(x) == IF x < 0 THEN 0 - x ELSE x
Min2(a, b) == IF a < b THEN a ELSE b
Max2(a, b) == IF a < b THEN b ELSE a

\* The positions of the model lie on the integer grid 0..2 x 0..2 degrees.
Grid == 0..2

\* 2 * radius * asin(sqrt(hav)) with radius = 6371.0e3, in metres, rounded,
\* tabulated by <<smaller latitude, larger latitude, |lon2 - lon1|>> (the
\* formula is symmetric in the two latitudes and even in the longitude
\* difference).
HaversineTable ==
    [ k \in { <<a, b, c>> \in Grid \X Grid \X Grid : a <= b } |->
        CASE k = <<0, 0, 0>> -> 0
          [] k = <<0, 0, 1>> -> 111195
          [] k = <<0, 0, 2>> -> 222390
          [] k = <<0, 1, 0>> -> 111195
          [] k = <<0, 1, 1>> -> 157249
          [] k = <<0, 1, 2>> -> 248629
          [] k = <<0, 2, 0>> -> 222390
          [] k = <<0, 2, 1>> -> 248629
          [] k = <<0, 2, 2>> -> 314475
          [] k = <<1, 1, 0>> -> 0
          [] k = <<1, 1, 1>> -> 111178
          [] k = <<1, 1, 2>> -> 222356
          [] k = <<1, 2, 0>> -> 111195
          [] k = <<1, 2, 1>> -> 157225
          [] k = <<1, 2, 2>> -> 248569
          [] k = <<2, 2, 0>> -> 0
          [] k = <<2, 2, 1>> -> 111127
          [] k = <<2, 2, 2>> -> 222254 ]

\* Position(latitude, longitude): a NamedTuple of two JSON values
Position(lat, lon) == [t |-> "pos", latitude |-> lat, longitude |-> lon]

\* haversine_distance(pos1, pos2): radians(x) raises TypeError for an x that
\* is not a number
haversine_distance(pos1, pos2) ==
    IF IsNum(pos1.latitude) /\ IsNum(pos1.longitude)
       /\ IsNum(pos2.latitude) /\ IsNum(pos2.longitude)
    THEN [exc |-> "",
          value |-> HaversineTable[
                      <<Min2(pos1.latitude.n, pos2.latitude.n),
                        Max2(pos1.latitude.n, pos2.latitude.n),
                        Abs(pos2.longitude.n - pos1.longitude.n)>>]]
    ELSE [exc |-> "TypeError", value |-> 0]

\* degrees(atan(dlon / dlat)) in hundredths of a degree, rounded, for
\* dlat # 0 and both differences within the grid.  atan is odd.
AtanDeg(dlon, dlat) ==
    LET sgn == IF (dlon < 0) = (dlat < 0) THEN 1 ELSE 0 - 1
        key == <<Abs(dlon), Abs(dlat)>>
        mag == CASE key = <<0, 1>> -> 0
                 [] key = <<0, 2>> -> 0
                 [] key = <<1, 1>> -> 4500
                 [] key = <<1, 2>> -> 2657
                 [] key = <<2, 1>> -> 6343
                 [] key = <<2, 2>> -> 4500
    IN  sgn * mag

\* a variant of relative_angle that does not reduce the angle of a target
\* to the north modulo 360
relative_angle_unreduced(pos1, pos2) ==
    LET lat1 == pos1.latitude.n
        lon1 == pos1.longitude.n
        lat2 == pos2.latitude.n
        lon2 == pos2.longitude.n
    IN  IF lat2 = lat1
        THEN IF lon2 > lon1 THEN 9000 ELSE 27000
        ELSE LET deg == AtanDeg(lon2 - lon1, lat2 - lat1)
             IN  IF lat2 > lat1
                 THEN 36000 + deg
                 ELSE 18000 + deg

\* relative_angle(pos1, pos2) for positions whose coordinates are numbers
relative_angle(pos1, pos2) ==
    LET lat1 == pos1.latitude.n
        lon1 == pos1.longitude.n
        lat2 == pos2.latitude.n
        lon2 == pos2.longitude.n
    IN  IF lat2 = lat1
        THEN IF lon2 > lon1 THEN 9000 ELSE 27000
        ELSE LET deg == AtanDeg(lon2 - lon1, lat2 - lat1)
             IN  IF lat2 > lat1
                 THEN (36000 + deg) % 36000
                 ELSE 18000 + deg

direction_lut ==
    << "N", "NE", "NE", "E", "E", "SE", "SE", "S",
       "S", "SW", "SW", "W", "W", "NW", "NW", "N" >>

\* a variant of relative_direction whose octants begin at the compass
\* headings instead of half-way between them
relative_direction_from_heading(angle) ==
    LET idx == angle \div 4500
        lut == << "N", "NE", "E", "SE", "S", "SW", "W", "NW" >>
    IN  IF idx + 1 \in 1..Len(lut)
        THEN [exc |-> "", value |-> lut[idx + 1]]
        ELSE [exc |-> "IndexError", value |-> ""]

\* direction_lut[int(angle / 22.5)]; the tuple is 0-indexed in the source.
\* An index outside the tuple raises IndexError.
relative_direction(angle) ==
    LET idx == angle \div 2250
    IN  IF idx + 1 \in 1..Len(direction_lut)
        THEN [exc |-> "", value |-> direction_lut[idx + 1]]
        ELSE [exc |-> "IndexError", value |-> ""]

(***************************************************************************)
(* The metric registry                                                     *)
(*                                                                         *)
(* A Gauge is identified by its exposition name.  The variable gauges      *)
(* holds, for every gauge created, the values it stores: a function from   *)
(* label sets to the value last set.  A gauge that was never set has the   *)
(* empty function.                                                         *)
(***************************************************************************)
NoValues == << >>

\* a variant of create_gauge_metric that leaves the prefix out
create_gauge_metric_bare(label, pfx) == label

\* create_gauge_metric(label, doc, prefix): Gauge(f"{prefix}{label}", doc)
create_gauge_metric(label, pfx) == pfx \o label

RECURSIVE BuildGauges(_, _, _)
\* for (name, label, doc) in specs: d[name] = create_gauge_metric(...)
BuildGauges(specs, i, d) ==
    IF i > Len(specs) THEN d
    ELSE BuildGauges(specs, i + 1,
                     DictSet(d, specs[i][1],
                             create_gauge_metric(specs[i][2], prefix)))

RECURSIVE BuildStatsGroups(_, _, _)
\* for group, metrics_specs in Specs["stats"].items():
\*     d = self.metrics["stats"].setdefault(group, {}) ...
BuildStatsGroups(specs, i, d) ==
    IF i > Len(specs) THEN d
    ELSE LET group == specs[i][1]
             d0 == IF group \in DictKeys(d) THEN DictGet(d, group) ELSE << >>
         IN  BuildStatsGroups(specs, i + 1,
                              DictSet(d, group, BuildGauges(specs[i][2], 1, d0)))

\* initialise_metrics: the value of self.metrics
initialise_metrics ==
    [ aircraft |-> BuildGauges(SpecsAircraft, 1, << >>),
      stats    |-> BuildStatsGroups(SpecsStats, 1, << >>) ]

\* every Gauge object self.metrics refers to
GaugeHandles(m) ==
    { DictGet(m.aircraft, k) : k \in DictKeys(m.aircraft) }
    \cup UNION { { DictGet(DictGet(m.stats, g), k) : k \in DictKeys(DictGet(m.stats, g)) }
                 : g \in DictKeys(m.stats) }

\* a variant of GaugeSet that adds a number to the number the series holds
GaugeAdd(gs, g, labels, value) ==
    [gs EXCEPT ![g] =
        (labels :> IF labels \in DOMAIN @ /\ IsNum(@[labels]) /\ IsNum(value)
                   THEN Num(@[labels].n + value.n)
                   ELSE value) @@ @]

\* Gauge.set(labels, value) on the gauge named g
GaugeSet(gs, g, labels, value) ==
    [gs EXCEPT ![g] = (labels :> value) @@ @]

(***************************************************************************)
(* Log records.  Debug records are left out.                               *)
(***************************************************************************)
LogRec(level, what, arg) == [level |-> level, what |-> what, arg |-> arg]

(***************************************************************************)
(* process_stats                                                           *)
(*                                                                         *)
(* The state threaded through the loops is [gauges, log, exc].  Once exc   *)
(* is set the remaining iterations are skipped: the exception propagates   *)
(* out of process_stats.                                                   *)
(***************************************************************************)
\* a variant of SetValue that sets a sequence as it is
SetValueWhole(st, metric, labels, value) ==
    [st EXCEPT !.gauges = GaugeSet(@, metric, labels, value)]

\* `if isinstance(value, list): value = value[0]` and
\* `metric.set(labels, value)`; [][0] raises IndexError
SetValue(st, metric, labels, value) ==
    IF IsList(value)
    THEN IF Len(value.items) = 0
         THEN [st EXCEPT !.exc = "IndexError"]
         ELSE [st EXCEPT !.gauges = GaugeSet(@, metric, labels, value.items[1])]
    ELSE [st EXCEPT !.gauges = GaugeSet(@, metric, labels, value)]

\* a variant of MissingField that warns whatever the field
MissingFieldWarns(st, key, name, metric, labels) ==
    [st EXCEPT !.log = Append(@, LogRec("warning", "item", <<key, name>>)),
               !.gauges = GaugeSet(@, metric, labels, NaN)]

\* a variant of MissingField that lets the KeyError leave the loops
MissingFieldRaises(st, key, name, metric, labels) ==
    [st EXCEPT !.exc = "KeyError"]

\* `except KeyError:` of `value = d[name]`: a warning unless the field is
\* signal or peak_signal, and `value = math.nan`, which is then set
MissingField(st, key, name, metric, labels) ==
    [st EXCEPT !.log = IF name \notin {"peak_signal", "signal"}
                       THEN Append(@, LogRec("warning", "item", <<key, name>>))
                       ELSE @,
               !.gauges = GaugeSet(@, metric, labels, NaN)]

\* the body of `for name, metric in gauge.items():`
StatsField(st, d, key, name, metric, labels) ==
    IF name \in DOMAIN d
    THEN SetValue(st, metric, labels, d[name])
    ELSE MissingField(st, key, name, metric, labels)

RECURSIVE StatsFields(_, _, _, _, _, _)
\* for name, metric in gauge.items(): ... metric.set(labels, value)
StatsFields(st, d, key, fields, labels, k) ==
    IF st.exc # "" \/ k > Len(fields) THEN st
    ELSE StatsFields(StatsField(st, d, key, fields[k][1], fields[k][2], labels),
                     d, key, fields, labels, k + 1)

RECURSIVE StatsGroups(_, _, _, _, _)
\* for key, gauge in metrics.items(): d = tp_stats[key] if key else tp_stats
StatsGroups(st, tp_stats, groups, labels, j) ==
    IF st.exc # "" \/ j > Len(groups) THEN st
    ELSE LET key == groups[j][1]
         IN  IF key # "" /\ key \notin DOMAIN tp_stats
             THEN [st EXCEPT !.exc = "KeyError"]
             ELSE LET d == IF key # "" THEN tp_stats[key] ELSE tp_stats
                  IN  StatsGroups(
                        StatsFields(st, d, key, groups[j][2], labels, 1),
                        tp_stats, groups, labels, j + 1)

\* a variant of MissingPeriod that lets the KeyError leave process_stats
MissingPeriodRaises(st, time_period) ==
    [st EXCEPT !.exc = "KeyError"]

\* `except KeyError: logger.exception(...); continue` of
\* `tp_stats = stats[time_period]`
MissingPeriod(st, time_period) ==
    [st EXCEPT !.log = Append(@, LogRec("error", "time period", <<time_period>>))]

RECURSIVE StatsPeriods(_, _, _, _, _)
\* for time_period in time_periods:
StatsPeriods(st, metrics_stats, stats, time_periods, i) ==
    IF st.exc # "" \/ i > Len(time_periods) THEN st
    ELSE IF time_periods[i] \notin DOMAIN stats
         THEN StatsPeriods(MissingPeriod(st, time_periods[i]),
                           metrics_stats, stats, time_periods, i + 1)
         ELSE StatsPeriods(
                StatsGroups(st, stats[time_periods[i]], metrics_stats,
                            [time_period |-> time_periods[i]], 1),
                metrics_stats, stats, time_periods, i + 1)

process_stats(gs, m, stats, time_periods) ==
    StatsPeriods([gauges |-> gs, log |-> << >>, exc |-> ""],
                 m.stats, stats, time_periods, 1)

(***************************************************************************)
(* process_aircraft                                                        *)
(***************************************************************************)
Directions == << "N", "NE", "E", "SE", "S", "SW", "W", "NW" >>
DirectionSet == { Directions[i] : i \in 1..Len(Directions) }

\* for key in AircraftKeys: entry.setdefault(key, None)
Normalise(entry) ==
    [ key \in (DOMAIN entry) \cup AircraftKeys |->
        IF key \in DOMAIN entry THEN entry[key] ELSE None ]

\* `"lat" in a["mlat"]` for a list of strings
Contains(v, x) == IsList(v) /\ \E i \in 1..Len(v.items) : v.items[i] = Str(x)

(***************************************************************************)
(* The body of `for a in aircraft["aircraft"]`, statement by statement.    *)
(* s holds the running totals, the record a of this iteration as the       *)
(* statements mutate it, and exc: the exception raised, "" for none.       *)
(* `x < threshold` raises TypeError for an x that is not a number.         *)
(***************************************************************************)
\* a["rel_direction"] = relative_direction(a["rel_angle"]) and the three
\* statements after it; dir is what relative_direction returned or raised
DirectionStmts(s, dir, distance) ==
    IF dir.exc # "" THEN [s EXCEPT !.exc = dir.exc]
    ELSE [s EXCEPT !.a["rel_direction"] = Str(dir.value),
                   !.aircraft_direction[dir.value] = @ + 1,
                   !.aircraft_direction_max_range[dir.value] = Max2(@, distance)]

\* a["rel_angle"] = relative_angle(self.origin, Position(a["lat"], a["lon"]))
AngleStmt(s, angle, distance) ==
    DirectionStmts([s EXCEPT !.a["rel_angle"] = Num(angle)],
                   relative_direction(angle), distance)

\* `if distance > aircraft_max_range: aircraft_max_range = distance`;
\* distance is what haversine_distance returned or raised
DistanceStmts(s, org, pos, distance) ==
    IF distance.exc # "" THEN [s EXCEPT !.exc = distance.exc]
    ELSE AngleStmt([s EXCEPT !.aircraft_max_range = Max2(@, distance.value)],
                   relative_angle(org, pos), distance.value)

\* `if self.origin:`
OriginBlock(s, org) ==
    IF Truthy(org)
    THEN DistanceStmts(s, org, Position(s.a["lat"], s.a["lon"]),
                       haversine_distance(org, Position(s.a["lat"], s.a["lon"])))
    ELSE s

\* `if a["mlat"] and "lat" in a["mlat"]: aircraft_with_mlat += 1`
MlatStmt(s) ==
    IF s.exc # "" THEN s
    ELSE IF Truthy(s.a["mlat"]) /\ Contains(s.a["mlat"], "lat")
         THEN [s EXCEPT !.aircraft_with_mlat = @ + 1]
         ELSE s

\* `if a["seen_pos"] and a["seen_pos"] < threshold:`
SeenPosStmt(s, org) ==
    IF s.exc # "" \/ ~Truthy(s.a["seen_pos"]) THEN s
    ELSE IF ~IsNum(s.a["seen_pos"]) THEN [s EXCEPT !.exc = "TypeError"]
    ELSE IF s.a["seen_pos"].n < threshold
         THEN MlatStmt(OriginBlock([s EXCEPT !.aircraft_with_pos = @ + 1], org))
         ELSE s

\* `if a["seen"] < threshold: aircraft_observed += 1`
SeenStmt(s) ==
    IF ~IsNum(s.a["seen"]) THEN [s EXCEPT !.exc = "TypeError"]
    ELSE IF s.a["seen"].n < threshold
         THEN [s EXCEPT !.aircraft_observed = @ + 1]
         ELSE s

\* the record of the iteration that ended, as it now is in the list
Collect(s) == [s EXCEPT !.entries = Append(@, s.a)]

RECURSIVE AircraftLoopMixed(_, _, _, _)
\* a variant of AircraftLoop in which the origin is another for the first
\* record than for the records after it
AircraftLoopMixed(s, entries, org, i) ==
    IF s.exc # "" \/ i > Len(entries) THEN s
    ELSE AircraftLoopMixed(
           Collect(SeenPosStmt(SeenStmt([s EXCEPT !.a = entries[i]]),
                               IF i = 1 /\ Truthy(org)
                               THEN Position(Num(1), Num(1)) ELSE org)),
           entries, org, i + 1)

RECURSIVE AircraftLoop(_, _, _, _)
\* for a in aircraft["aircraft"]:
AircraftLoop(s, entries, org, i) ==
    IF s.exc # "" \/ i > Len(entries) THEN s
    ELSE AircraftLoop(
           Collect(SeenPosStmt(SeenStmt([s EXCEPT !.a = entries[i]]), org)),
           entries, org, i + 1)

\* The gauge sets of process_aircraft in program order:
\* <<key into self.metrics["aircraft"], labels, value>>
AircraftWrites(acc, messages) ==
    << <<"observed", [time_period |-> "latest"], Num(acc.aircraft_observed)>>,
       <<"observed_with_pos", [time_period |-> "latest"], Num(acc.aircraft_with_pos)>>,
       <<"observed_with_mlat", [time_period |-> "latest"], Num(acc.aircraft_with_mlat)>>,
       <<"max_range", [time_period |-> "latest"], Num(acc.aircraft_max_range)>>,
       <<"messages_total", [time_period |-> "latest"], messages>> >>
    \o [ n \in 1..(2 * Len(Directions)) |->
           IF n % 2 = 1
           THEN <<"observed_with_direction",
                  [time_period |-> "latest", direction |-> Directions[(n + 1) \div 2]],
                  Num(acc.aircraft_direction[Directions[(n + 1) \div 2]])>>
           ELSE <<"max_range_by_direction",
                  [time_period |-> "latest", direction |-> Directions[(n + 1) \div 2]],
                  Num(acc.aircraft_direction_max_range[Directions[(n + 1) \div 2]])>> ]

RECURSIVE ApplyWrites(_, _, _, _)
\* d[key].set(labels, value) for each write in turn; d[key] raises KeyError
\* for a key that is not in the dict, and the writes after it do not happen
ApplyWrites(st, d, writes, i) ==
    IF st.exc # "" \/ i > Len(writes) THEN st
    ELSE IF writes[i][1] \notin DictKeys(d)
         THEN [st EXCEPT !.exc = "KeyError"]
         ELSE ApplyWrites(
                [st EXCEPT !.gauges =
                    GaugeSet(@, DictGet(d, writes[i][1]), writes[i][2], writes[i][3])],
                d, writes, i + 1)

\* the totals before the loop
Totals ==
    [ aircraft_observed  |-> 0,
      aircraft_with_pos  |-> 0,
      aircraft_with_mlat |-> 0,
      aircraft_max_range |-> 0,
      aircraft_direction |-> [ x \in DirectionSet |-> 0 ],
      aircraft_direction_max_range |-> [ x \in DirectionSet |-> 0 ],
      a |-> << >>, entries |-> << >>, exc |-> "" ]

\* the aircraft dict as the call leaves it: the records the loop went
\* through as mutated, the others as normalised
Left(normal, entries) ==
    [normal EXCEPT !["aircraft"] =
        [ i \in 1..Len(normal["aircraft"]) |->
            IF i <= Len(entries) THEN entries[i] ELSE normal["aircraft"][i] ]]

\* process_aircraft after the loop, which ended as `loop`
AfterLoop(gs, m, normal, loop) ==
    [ aircraft |-> Left(normal, loop.entries) ]
    @@ IF loop.exc # ""
       THEN [gauges |-> gs, log |-> << >>, exc |-> loop.exc]
       ELSE ApplyWrites([gauges |-> gs, log |-> << >>, exc |-> ""], m.aircraft,
                        AircraftWrites(loop, normal["messages"]), 1)

\* process_aircraft from `messages = aircraft["messages"]`, the records
\* being normalised
AfterNormalise(gs, m, org, normal) ==
    IF "messages" \notin DOMAIN normal
    THEN [gauges |-> gs, log |-> << >>, exc |-> "KeyError", aircraft |-> normal]
    ELSE AfterLoop(gs, m, normal,
                   AircraftLoop(Totals, normal["aircraft"], org, 1))

\* process_aircraft(aircraft): [gauges, log, exc, aircraft], the last being
\* the aircraft dict as the call leaves it
process_aircraft(gs, m, org, aircraft) ==
    IF "aircraft" \notin DOMAIN aircraft
    THEN [gauges |-> gs, log |-> << >>, exc |-> "KeyError", aircraft |-> aircraft]
    ELSE AfterNormalise(gs, m, org,
                        [aircraft EXCEPT !["aircraft"] =
                            [ i \in 1..Len(aircraft["aircraft"]) |->
                                Normalise(aircraft["aircraft"][i]) ]])

(***************************************************************************)
(* The documents the dump1090 service may return: the inputs of the model  *)
(***************************************************************************)
FieldNames(fields) == { fields[i][1] : i \in 1..Len(fields) }

\* a sub-document holding every field of a stats group, each with value v;
\* dump1090 reports "accepted" as a list
GroupDoc(fields, v) ==
    [ name \in FieldNames(fields) |->
        IF name = "accepted" THEN List(<<Num(42), Num(0)>>) ELSE Num(v) ]

\* a time-period document holding every group and field of the table
PeriodDoc(v) ==
    [ key \in {"messages", "cpr", "cpu", "local", "remote", "tracks"} |->
        IF key = "messages" THEN Num(v)
        ELSE GroupDoc(DictGet(SpecsStats, key), v) ]

Without(f, keys) == [ k \in (DOMAIN f) \ keys |-> f[k] ]

StatsFull == [ p \in {"latest", "last1min", "total"} |-> PeriodDoc(1) ]
\* no aircraft tracked: no signal levels; and one other field is missing
StatsQuiet ==
    [ p \in {"last1min"} |->
        [PeriodDoc(2) EXCEPT !["local"] = Without(@, {"signal", "peak_signal"}),
                             !["remote"] = Without(@, {"modes"})] ]
\* a period document without the tracks object
StatsNoTracks == [ p \in {"last1min"} |-> Without(PeriodDoc(3), {"tracks"}) ]
StatsDocs == { "StatsFull", "StatsQuiet", "StatsNoTracks" }

AircraftBusy ==
    [ messages |-> Num(100),
      aircraft |->
        << [ hex |-> Str("a1"), seen |-> Num(2), seen_pos |-> Num(2),
             lat |-> Num(2), lon |-> Num(1),
             mlat |-> List(<<Str("lat"), Str("lon")>>) ],
           [ hex |-> Str("a2"), seen |-> Num(20), seen_pos |-> Num(20),
             lat |-> Num(0), lon |-> Num(2) ],
           [ hex |-> Str("a3"), seen |-> Num(1) ] >> ]
AircraftNone == [ messages |-> Num(200), aircraft |-> << >> ]
AircraftNoMessages == [ aircraft |-> << >> ]
AircraftDocs == { "AircraftBusy", "AircraftNone", "AircraftNoMessages" }
\* a table with an aircraft on every point of the grid but its centre, one
\* seen with a position too long ago and one seen with a position just now
AircraftAround ==
    [ messages |-> Num(300),
      aircraft |->
        << [ hex |-> Str("b1"), seen |-> Num(1), seen_pos |-> Num(1),
             lat |-> Num(2), lon |-> Num(1) ],
           [ hex |-> Str("b2"), seen |-> Num(1), seen_pos |-> Num(1),
             lat |-> Num(2), lon |-> Num(2) ],
           [ hex |-> Str("b3"), seen |-> Num(1), seen_pos |-> Num(1),
             lat |-> Num(1), lon |-> Num(2) ],
           [ hex |-> Str("b4"), seen |-> Num(1), seen_pos |-> Num(1),
             lat |-> Num(0), lon |-> Num(2) ],
           [ hex |-> Str("b5"), seen |-> Num(1), seen_pos |-> Num(1),
             lat |-> Num(0), lon |-> Num(1) ],
           [ hex |-> Str("b6"), seen |-> Num(1), seen_pos |-> Num(1),
             lat |-> Num(0), lon |-> Num(0) ],
           [ hex |-> Str("b7"), seen |-> Num(1), seen_pos |-> Num(1),
             lat |-> Num(1), lon |-> Num(0) ],
           [ hex |-> Str("b8"), seen |-> Num(1), seen_pos |-> Num(1),
             lat |-> Num(2), lon |-> Num(0) ],
           [ hex |-> Str("b9"), seen |-> Num(1), seen_pos |-> Num(30),
             lat |-> Num(2), lon |-> Num(2) ],
           [ hex |-> Str("b0"), seen |-> Num(0), seen_pos |-> Num(0),
             lat |-> Num(2), lon |-> Num(1) ] >> ]

\* a table whose records lack optional keys: one seen with a position but
\* without lat and lon, one with nothing but its address
AircraftPartial ==
    [ messages |-> Num(400),
      aircraft |->
        << [ hex |-> Str("c1"), seen |-> Num(1), seen_pos |-> Num(1) ],
           [ hex |-> Str("c2") ] >> ]

ReceiverEmpty == << >>
ReceiverFull == [ version |-> Str("v"), lat |-> Num(1), lon |-> Num(1) ]
ReceiverNoLon == [ version |-> Str("v"), lat |-> Num(1) ]
ReceiverDocs == { "ReceiverEmpty", "ReceiverFull", "ReceiverNoLon" }

\* the document of a given name
Document(name) ==
    CASE name = "StatsFull"          -> StatsFull
      [] name = "StatsQuiet"         -> StatsQuiet
      [] name = "StatsNoTracks"      -> StatsNoTracks
      [] name = "AircraftBusy"       -> AircraftBusy
      [] name = "AircraftNone"       -> AircraftNone
      [] name = "AircraftNoMessages" -> AircraftNoMessages
      [] name = "AircraftAround"     -> AircraftAround
      [] name = "AircraftPartial"    -> AircraftPartial
      [] name = "ReceiverEmpty"      -> ReceiverEmpty
      [] name = "ReceiverFull"       -> ReceiverFull
      [] name = "ReceiverNoLon"      -> ReceiverNoLon

\* the names of the documents a resource may hold
Docs(kind) ==
    CASE kind = "receiver" -> ReceiverDocs
      [] kind = "stats"    -> StatsDocs
      [] kind = "aircraft" -> AircraftDocs

\* What the source answers to one fetch.  Over HTTP: a document, no answer
\* within fetch_timeout, a transport failure, a status other than 200, or a
\* body that is not JSON.  From a file: a document, a file that cannot be
\* opened, or content that is not JSON.
Responses(http, kind) ==
    { [what |-> "ok", body |-> b] : b \in Docs(kind) }
    \cup { [what |-> w, body |-> ""] :
             w \in IF http THEN {"timeout", "client error", "status", "not json"}
                   ELSE {"cannot open", "not json"} }

\* _fetch: the value returned (data, the document named doc), or the
\* exception raised
Fetch(response) ==
    CASE response.what = "ok" ->
           [exc |-> "", msg |-> "", doc |-> response.body]
      [] response.what = "timeout" ->
           [exc |-> "Exception", msg |-> "Request timed out", doc |-> ""]
      [] response.what = "client error" ->
           [exc |-> "Exception", msg |-> "Client error", doc |-> ""]
      [] response.what = "status" ->
           [exc |-> "Exception", msg |-> "Fetch failed", doc |-> ""]
      [] response.what = "not json" ->
           [exc |-> "JSONDecodeError", msg |-> "Expecting value", doc |-> ""]
      [] response.what = "cannot open" ->
           [exc |-> "OSError", msg |-> "No such file", doc |-> ""]

\* the time from a cycle's start to its end, in seconds: none, or more than
\* the longest interval
Elapsed == {0, receiver_interval_origin_ok + MaxOverrun}

\* the values of the constructor's time_periods and origin arguments
TimePeriodConfigs == { <<"last1min", "total">> }
\* a configuration that asks for the period named like the label of the
\* aircraft series
LatestConfigs == { <<"latest", "last1min">> }
OriginConfigs == { None, Position(Num(0), Num(0)) }

\* every value self.origin may take
Origins ==
    OriginConfigs
    \cup { Position(Document(d)["lat"], Document(d)["lon"]) :
             d \in { x \in ReceiverDocs : {"lat", "lon"} \subseteq DOMAIN Document(x) } }

(***************************************************************************)
(* self.metrics is assigned once, in __init__, and no Gauge is created     *)
(* anywhere else.                                                          *)
(***************************************************************************)
metrics == initialise_metrics

\* the Gauge objects as created: no value set
NoGauges == [ g \in GaugeHandles(metrics) |-> NoValues ]

\* a variant of Merge in which a call's sets replace all a gauge held
MergeReplace(gs, over) == [ g \in DOMAIN gs |-> over[g] ]

\* gs with every <<gauge, labels>> that was set in `over` taking over's value
Merge(gs, over) == [ g \in DOMAIN gs |-> over[g] @@ gs[g] ]

\* process_stats and process_aircraft only ever set gauges, so what a call
\* does to the gauges is the calls' sets laid over the values from before.
\* The calls are tabulated from gauges never set, by document (@@ has TLC
\* compute a table once, as an explicit function).
StatsOutcome ==
    [ k \in StatsDocs \X (TimePeriodConfigs \cup LatestConfigs) |->
        process_stats(NoGauges, metrics, Document(k[1]), k[2]) ] @@ << >>

AircraftOutcome ==
    [ k \in AircraftDocs \X Origins |->
        process_aircraft(NoGauges, metrics, k[2], Document(k[1])) ] @@ << >>

(***************************************************************************)
(* State                                                                   *)
(***************************************************************************)
VARIABLES
    cancelled_error_is_exception, \* the interpreter: asyncio.CancelledError
                                  \* derives from Exception (Python 3.6, 3.7)
                                  \* or from BaseException (3.8, 3.9)
    resource_is_http,       \* resource.startswith("http")
    stats_time_periods,     \* self.stats_time_periods
    origin,                 \* self.origin: None or a Position
    gauges,                 \* the values stored in the Gauge objects
    tasks,                  \* every task created so far, by task id
    receiver_task,          \* self.receiver_task: 0 (None) or a task id
    stats_task,             \* self.stats_task
    aircraft_task,          \* self.aircraft_task
    api,                    \* where the caller of start() and stop() is
    starts,                 \* the number of start() calls so far
    last                    \* what the latest step was: a cycle that ended
                            \* (with its log records and its delay), a call
                            \* of stop(), a task ending on its cancellation;
                            \* NoEvent for any other step

vars == << cancelled_error_is_exception, resource_is_http, stats_time_periods,
           origin, gauges, tasks, receiver_task, stats_task, aircraft_task,
           api, starts, last >>

config == << cancelled_error_is_exception, resource_is_http, stats_time_periods >>
handles == << receiver_task, stats_task, aircraft_task >>

NoEvent == [op |-> "none"]

\* a task as asyncio.ensure_future(coroutine) leaves it
NewTask(kind) ==
    [ kind        |-> kind,
      pc          |-> "created",  \* created, fetch, sleep, done
      must_cancel |-> FALSE,      \* a cancellation is to be delivered
      cancelled   |-> FALSE ]     \* cancel() was called on the task

TaskIds == 1..Len(tasks)

\* Dump1090Exporter.__init__
Init ==
    /\ cancelled_error_is_exception \in BOOLEAN
    /\ resource_is_http \in BOOLEAN
    /\ stats_time_periods \in TimePeriodConfigs
    /\ origin \in OriginConfigs
    /\ gauges = NoGauges
    /\ tasks = << >>
    /\ receiver_task = 0
    /\ stats_task = 0
    /\ aircraft_task = 0
    /\ api = "idle"
    /\ starts = 0
    /\ last = NoEvent

(***************************************************************************)
(* The updater coroutines                                                  *)
(***************************************************************************)
Interval(kind, org) ==
    CASE kind = "receiver" ->
           IF Truthy(org) THEN receiver_interval_origin_ok ELSE receiver_interval
      [] kind = "stats"    -> stats_interval
      [] kind = "aircraft" -> aircraft_interval

\* `except Exception as exc: logger.error(f"Error fetching ... data: {exc}")`
ErrorRec(kind, text) == LogRec("error", "Error fetching dump1090 " \o kind \o " data", <<text>>)

\* a variant of ReceiverBlock that logs an error for a document without a
\* position
ReceiverBlockComplains(receiver, org, gs) ==
    IF DOMAIN receiver # {} /\ "lat" \in DOMAIN receiver /\ "lon" \in DOMAIN receiver
    THEN [origin |-> Position(receiver["lat"], receiver["lon"]),
          gauges |-> gs,
          log |-> << LogRec("info", "Origin successfully extracted", << >>) >>]
    ELSE [origin |-> org, gauges |-> gs,
          log |-> << ErrorRec("receiver", "no position") >>]

\* a variant of ReceiverBlock that clears the origin when the document has
\* no position
ReceiverBlockClears(receiver, org, gs) ==
    IF DOMAIN receiver # {} /\ "lat" \in DOMAIN receiver /\ "lon" \in DOMAIN receiver
    THEN [origin |-> Position(receiver["lat"], receiver["lon"]),
          gauges |-> gs,
          log |-> << LogRec("info", "Origin successfully extracted", << >>) >>]
    ELSE [origin |-> None, gauges |-> gs, log |-> << >>]

\* `if receiver:` and what it guards
ReceiverBlock(receiver, org, gs) ==
    IF DOMAIN receiver # {} /\ "lat" \in DOMAIN receiver /\ "lon" \in DOMAIN receiver
    THEN [origin |-> Position(receiver["lat"], receiver["lon"]),
          gauges |-> gs,
          log |-> << LogRec("info", "Origin successfully extracted", << >>) >>]
    ELSE [origin |-> org, gauges |-> gs, log |-> << >>]

\* The try block of updater_receiver once _fetch has returned or raised:
\* [origin, gauges, log]
ReceiverTry(fetched, org, gs) ==
    IF fetched.exc # ""
    THEN [origin |-> org, gauges |-> gs,
          log |-> << ErrorRec("receiver", fetched.msg) >>]
    ELSE ReceiverBlock(Document(fetched.doc), org, gs)

\* a variant of Processed in which the gauges hold nothing but what the
\* call set
ProcessedReplaces(kind, org, gs, r) ==
    [ origin |-> org,
      gauges |-> r.gauges,
      log |-> IF r.exc # "" THEN Append(r.log, ErrorRec(kind, r.exc)) ELSE r.log ]

\* The try block of updater_stats or updater_aircraft after the fetch, r
\* being what process_stats or process_aircraft did on gauges never set
Processed(kind, org, gs, r) ==
    [ origin |-> org,
      gauges |-> Merge(gs, r.gauges),
      log |-> IF r.exc # "" THEN Append(r.log, ErrorRec(kind, r.exc)) ELSE r.log ]

\* a variant of StatsTry that resets the gauges when the fetch fails
StatsTryClears(fetched, org, gs, time_periods) ==
    IF fetched.exc # ""
    THEN [origin |-> org, gauges |-> NoGauges,
          log |-> << ErrorRec("stats", fetched.msg) >>]
    ELSE Processed("stats", org, gs, StatsOutcome[<<fetched.doc, time_periods>>])

\* The try block of updater_stats
StatsTry(fetched, org, gs, time_periods) ==
    IF fetched.exc # ""
    THEN [origin |-> org, gauges |-> gs,
          log |-> << ErrorRec("stats", fetched.msg) >>]
    ELSE Processed("stats", org, gs, StatsOutcome[<<fetched.doc, time_periods>>])

\* a variant of AircraftTry that never uses the origin
AircraftTryNoOrigin(fetched, org, gs) ==
    IF fetched.exc # ""
    THEN [origin |-> org, gauges |-> gs,
          log |-> << ErrorRec("aircraft", fetched.msg) >>]
    ELSE Processed("aircraft", org, gs, AircraftOutcome[<<fetched.doc, None>>])

\* The try block of updater_aircraft
AircraftTry(fetched, org, gs) ==
    IF fetched.exc # ""
    THEN [origin |-> org, gauges |-> gs,
          log |-> << ErrorRec("aircraft", fetched.msg) >>]
    ELSE Processed("aircraft", org, gs, AircraftOutcome[<<fetched.doc, org>>])

Try(kind, fetched, org, gs, time_periods) ==
    CASE kind = "receiver" -> ReceiverTry(fetched, org, gs)
      [] kind = "stats"    -> StatsTry(fetched, org, gs, time_periods)
      [] kind = "aircraft" -> AircraftTry(fetched, org, gs)

\* a variant of WaitSeconds that always takes the interval of an unset origin
WaitSecondsShort(kind, org, elapsed) == Interval(kind, None) - elapsed

\* wait_seconds = (start + interval - end).total_seconds(), with
\* elapsed = end - start; org is self.origin as the try block left it
WaitSeconds(kind, org, elapsed) == Interval(kind, org) - elapsed

\* a variant of EndCycle in which a cycle that logged an error ends the task
EndCycleEndsOnError(t, response, r) ==
    /\ origin' = r.origin
    /\ gauges' = r.gauges
    /\ tasks' = [tasks EXCEPT ![t] =
                   [@ EXCEPT !.pc = IF \E i \in 1..Len(r.log) : r.log[i].level = "error"
                                    THEN "done" ELSE "sleep",
                             !.must_cancel = FALSE]]
    /\ \E elapsed \in Elapsed :
          last' = [ op |-> "cycle", task |-> t, kind |-> tasks[t].kind,
                    response |-> response, log |-> r.log,
                    elapsed |-> elapsed,
                    wait_seconds |-> WaitSeconds(tasks[t].kind, r.origin, elapsed) ]

\* The end of a cycle of task t, r being what the try block did: the state
\* it left, then the next-wake delay and the await of asyncio.sleep
EndCycle(t, response, r) ==
    /\ origin' = r.origin
    /\ gauges' = r.gauges
    /\ tasks' = [tasks EXCEPT ![t] =
                   [@ EXCEPT !.pc = "sleep", !.must_cancel = FALSE]]
    /\ \E elapsed \in Elapsed :
          last' = [ op |-> "cycle", task |-> t, kind |-> tasks[t].kind,
                    response |-> response, log |-> r.log,
                    elapsed |-> elapsed,
                    wait_seconds |-> WaitSeconds(tasks[t].kind, r.origin, elapsed) ]

\* One cycle of task t from the moment _fetch returns or raises to the
\* await of asyncio.sleep
FinishCycle(t, response, fetched) ==
    EndCycle(t, response,
             Try(tasks[t].kind, fetched, origin, gauges, stats_time_periods))

\* The task starts to run, or asyncio.sleep returns: the next iteration of
\* `while True` up to its first await.  Reading a file is no await: the
\* whole iteration runs up to asyncio.sleep.
UpdaterBegin(t) ==
    /\ t \in TaskIds
    /\ tasks[t].pc \in {"created", "sleep"}
    /\ ~tasks[t].must_cancel
    /\ IF resource_is_http
       THEN /\ tasks' = [tasks EXCEPT ![t] = [@ EXCEPT !.pc = "fetch"]]
            /\ last' = NoEvent
            /\ UNCHANGED << origin, gauges >>
       ELSE \E response \in Responses(FALSE, tasks[t].kind) :
                FinishCycle(t, response, Fetch(response))
    /\ UNCHANGED << config, handles, api, starts >>

\* The HTTP fetch of task t ends
UpdaterFetched(t) ==
    /\ t \in TaskIds
    /\ tasks[t].pc = "fetch"
    /\ ~tasks[t].must_cancel
    /\ \E response \in Responses(TRUE, tasks[t].kind) :
           FinishCycle(t, response, Fetch(response))
    /\ UNCHANGED << config, handles, api, starts >>

\* a variant of UpdaterCancelled in which the cancellation is raised inside
\* the transform, after gauges were set
UpdaterCancelledAfterSets(t) ==
    /\ t \in TaskIds
    /\ tasks[t].pc # "done"
    /\ tasks[t].must_cancel
    /\ \E b \in Docs(tasks[t].kind) :
          gauges' = Try(tasks[t].kind, [exc |-> "", msg |-> "", doc |-> b],
                        origin, gauges, stats_time_periods).gauges
    /\ tasks' = [tasks EXCEPT ![t] =
                   [@ EXCEPT !.pc = "done", !.must_cancel = FALSE]]
    /\ last' = [op |-> "cancelled", task |-> t, at |-> tasks[t].pc]
    /\ UNCHANGED << origin, config, handles, api, starts >>

\* A requested cancellation reaches task t: CancelledError is raised where
\* the coroutine is suspended.  In created (the coroutine has not started)
\* and in sleep nothing catches it and the task ends.  In fetch it is raised
\* inside the try block, whose `except Exception` catches it exactly when
\* CancelledError derives from Exception.
UpdaterCancelled(t) ==
    /\ t \in TaskIds
    /\ tasks[t].pc # "done"
    /\ tasks[t].must_cancel
    /\ IF tasks[t].pc = "fetch" /\ cancelled_error_is_exception
       THEN FinishCycle(t, [what |-> "cancelled", body |-> ""],
                        [exc |-> "CancelledError", msg |-> "", doc |-> ""])
       ELSE /\ tasks' = [tasks EXCEPT ![t] =
                           [@ EXCEPT !.pc = "done", !.must_cancel = FALSE]]
            /\ last' = [op |-> "cancelled", task |-> t, at |-> tasks[t].pc]
            /\ UNCHANGED << origin, gauges >>
    /\ UNCHANGED << config, handles, api, starts >>

(***************************************************************************)
(* start() and stop().  One caller awaits one call at a time; api is the   *)
(* await the caller is suspended at, or "idle" between calls.              *)
(***************************************************************************)
\* start() up to `await self.svr.start(...)`
StartCall ==
    /\ api = "idle"
    /\ starts < MaxStarts
    /\ api' = "start svr"
    /\ starts' = starts + 1
    /\ last' = NoEvent
    /\ UNCHANGED << config, origin, gauges, tasks, handles >>

\* start() from the return of self.svr.start to its end: three
\* asyncio.ensure_future calls
StartResume ==
    /\ api = "start svr"
    /\ tasks' = tasks \o << NewTask("receiver"), NewTask("stats"), NewTask("aircraft") >>
    /\ receiver_task' = Len(tasks) + 1
    /\ stats_task' = Len(tasks) + 2
    /\ aircraft_task' = Len(tasks) + 3
    /\ api' = "idle"
    /\ last' = NoEvent
    /\ UNCHANGED << config, origin, gauges, starts >>

StopStages == << "stop receiver", "stop stats", "stop aircraft" >>

RECURSIVE StopFrom(_, _, _)
\* stop() from its i-th `if self.<x>_task:` to its next await, with tks the
\* tasks and h = <<receiver_task, stats_task, aircraft_task>>.
\* Task.cancel() on a task that is done does nothing, and awaiting such a
\* task does not suspend.
StopFrom(i, tks, h) ==
    IF i > Len(StopStages)
    THEN [api |-> "stop svr", tasks |-> tks, handles |-> h]
    ELSE IF h[i] = 0
         THEN StopFrom(i + 1, tks, h)
         ELSE IF tks[h[i]].pc = "done"
              THEN StopFrom(i + 1, tks, [h EXCEPT ![i] = 0])
              ELSE [api |-> StopStages[i],
                    tasks |-> [tks EXCEPT ![h[i]] =
                                 [@ EXCEPT !.must_cancel = TRUE, !.cancelled = TRUE]],
                    handles |-> h]

StopTo(r, event) ==
    /\ api' = r.api
    /\ tasks' = r.tasks
    /\ receiver_task' = r.handles[1]
    /\ stats_task' = r.handles[2]
    /\ aircraft_task' = r.handles[3]
    /\ last' = event
    /\ UNCHANGED << config, origin, gauges, starts >>

\* stop() is called
StopCall ==
    /\ api = "idle"
    /\ StopTo(StopFrom(1, tasks, handles), [op |-> "stop"])

\* a variant of StopResume that leaves the handle as it was
StopResumeKeepsHandle ==
    \E i \in 1..Len(StopStages) :
        /\ api = StopStages[i]
        /\ tasks[handles[i]].pc = "done"
        /\ StopTo(StopFrom(i + 1, tasks, handles), NoEvent)

\* the task stop() awaits has ended: `except asyncio.CancelledError: pass`,
\* the handle is set to None and stop() runs on to its next await
StopResume ==
    \E i \in 1..Len(StopStages) :
        /\ api = StopStages[i]
        /\ tasks[handles[i]].pc = "done"
        /\ StopTo(StopFrom(i + 1, tasks, [handles EXCEPT ![i] = 0]), NoEvent)

\* self.svr.stop() returns and with it stop()
StopReturn ==
    /\ api = "stop svr"
    /\ api' = "idle"
    /\ last' = NoEvent
    /\ UNCHANGED << config, origin, gauges, tasks, handles, starts >>

Next ==
    \/ StartCall
    \/ StartResume
    \/ StopCall
    \/ StopResume
    \/ StopReturn
    \/ \E t \in TaskIds : UpdaterBegin(t)
    \/ \E t \in TaskIds : UpdaterFetched(t)
    \/ \E t \in TaskIds : UpdaterCancelled(t)

Spec == Init /\ [][Next]_vars


(***************************************************************************)
(* The transforms called on their own.  process_stats, process_aircraft    *)
(* and relative_direction are methods and functions a caller can apply to  *)
(* any argument: CallSpec applies them, one call per step, to the          *)
(* documents above and to a table with aircraft all around, from any value *)
(* the origin may have.  last holds the call and what it returned.         *)
(***************************************************************************)
CallStatsDocs == StatsDocs
CallAircraftDocs == AircraftDocs \cup { "AircraftAround", "AircraftPartial" }
\* the time_periods argument of process_stats
CallTimePeriods == { <<"last1min">>, <<"last1min", "total">>, <<"total", "last1min">> }
\* the bearings at which direction_lut steps to its next entry and the
\* bearings a hundredth of a degree before them, over two turns of the
\* compass
CallAngles ==
    UNION { { 2250 * k, 2250 * k + 2249 } : k \in 0..(2 * Len(direction_lut) - 1) }

Range(seq) == { seq[i] : i \in 1..Len(seq) }

DictValues(d) == [ i \in 1..Len(d) |-> d[i][2] ]

RECURSIVE GroupValues(_, _)
GroupValues(groups, j) ==
    IF j > Len(groups) THEN << >>
    ELSE DictValues(groups[j][2]) \o GroupValues(groups, j + 1)

\* the gauges initialise_metrics creates, in the order it creates them
Created(m) == DictValues(m.aircraft) \o GroupValues(m.stats, 1)

\* a variant of NewGauge that registers whatever the name
NewGaugeUnchecked(registry, name) ==
    [registry |-> Append(registry, name), exc |-> ""]

\* Gauge(name, doc): aioprometheus registers the new metric with its default
\* registry (REGISTRY, which tests/test_exporter.py clears between tests),
\* and the registry raises ValueError for a name it already holds
NewGauge(registry, name) ==
    IF name \in Range(registry)
    THEN [registry |-> registry, exc |-> "ValueError"]
    ELSE [registry |-> Append(registry, name), exc |-> ""]

RECURSIVE CreateAll(_, _, _)
\* the Gauge constructions of one run of initialise_metrics
CreateAll(r, names, i) ==
    IF r.exc # "" \/ i > Len(names) THEN r
    ELSE CreateAll(NewGauge(r.registry, names[i]), names, i + 1)

\* the registry as __init__ leaves it
Registered == CreateAll([registry |-> << >>, exc |-> ""], Created(metrics), 1)

CallInit ==
    /\ cancelled_error_is_exception = FALSE
    /\ resource_is_http = TRUE
    /\ stats_time_periods \in TimePeriodConfigs
    /\ origin \in Origins
    /\ gauges = NoGauges
    /\ tasks = << >>
    /\ receiver_task = 0
    /\ stats_task = 0
    /\ aircraft_task = 0
    /\ api = "idle"
    /\ starts = 0
    /\ last = NoEvent

Called(event, r) ==
    /\ gauges' = r.gauges
    /\ last' = event @@ [exc |-> r.exc, log |-> r.log]
    /\ UNCHANGED << config, origin, tasks, handles, api, starts >>

\* self.process_stats(stats, time_periods)
CallProcessStats ==
    \E d \in CallStatsDocs, tp \in CallTimePeriods :
        Called([op |-> "process_stats", stats |-> d, time_periods |-> tp],
               process_stats(gauges, metrics, Document(d), tp))

\* self.process_aircraft(aircraft)
CallProcessAircraft ==
    \E d \in CallAircraftDocs :
        Called([op |-> "process_aircraft", aircraft |-> d],
               process_aircraft(gauges, metrics, origin, Document(d)))

\* relative_direction(angle)
CallRelativeDirection ==
    /\ \E angle \in CallAngles :
          last' = [op |-> "relative_direction", angle |-> angle,
                   result |-> relative_direction(angle)]
    /\ UNCHANGED << config, origin, gauges, tasks, handles, api, starts >>

\* the positions of the grid, and those of its diagonal: every difference
\* in latitude and in longitude the grid has is between one of the latter
\* and one of the former
CallPositions == { Position(Num(lat), Num(lon)) : lat \in Grid, lon \in Grid }
CallDiagonal == { Position(Num(k), Num(k)) : k \in Grid }

\* relative_angle(pos1, pos2)
CallRelativeAngle ==
    /\ \E pos1 \in CallDiagonal, pos2 \in CallPositions :
          last' = [op |-> "relative_angle", pos1 |-> pos1, pos2 |-> pos2,
                   result |-> relative_angle(pos1, pos2)]
    /\ UNCHANGED << config, origin, gauges, tasks, handles, api, starts >>

\* self.initialise_metrics() once more
CallInitialiseMetrics ==
    /\ last' = [op |-> "initialise_metrics"]
                 @@ CreateAll(Registered, Created(initialise_metrics), 1)
    /\ UNCHANGED << config, origin, gauges, tasks, handles, api, starts >>

CallNext ==
    \/ CallProcessStats
    \/ CallProcessAircraft
    \/ CallRelativeDirection
    \/ CallRelativeAngle
    \/ CallInitialiseMetrics

CallSpec == CallInit /\ [][CallNext]_vars

(***************************************************************************)
(* Scheduling.  The event loop runs every coroutine that is ready: a task  *)
(* that was created or whose sleep is over is resumed, a fetch ends (with  *)
(* a document, an error or the timeout), and start() resumes when the      *)
(* service has started.  Nothing obliges a caller to call start() or       *)
(* stop().  The fair behaviours are taken from the configuration that      *)
(* reads the resources over HTTP, with no origin configured, on an         *)
(* interpreter whose CancelledError derives from BaseException.            *)
(***************************************************************************)
MaxTasks == 3 * MaxStarts

Fairness ==
    /\ WF_vars(StartResume)
    /\ \A t \in 1..MaxTasks :
          /\ WF_vars(UpdaterBegin(t))
          /\ WF_vars(UpdaterFetched(t))

FairInit ==
    Init /\ resource_is_http /\ ~cancelled_error_is_exception /\ origin = None

FairSpec == FairInit /\ [][Next]_vars /\ Fairness

(***************************************************************************)
(* The exporter configured with the time period "latest", the label the    *)
(* aircraft series carry, and with an origin.                              *)
(***************************************************************************)
LatestInit ==
    /\ cancelled_error_is_exception = FALSE
    /\ resource_is_http = TRUE
    /\ stats_time_periods \in LatestConfigs
    /\ origin = Position(Num(0), Num(0))
    /\ gauges = NoGauges
    /\ tasks = << >>
    /\ receiver_task = 0
    /\ stats_task = 0
    /\ aircraft_task = 0
    /\ api = "idle"
    /\ starts = 0
    /\ last = NoEvent

LatestSpec == LatestInit /\ [][Next]_vars

(***************************************************************************)
(* start() called again.  Nothing in start() looks at the task handles or  *)
(* at the server: a call made while the jobs of an earlier call run goes   *)
(* the same way as the first.  self.svr.start belongs to the library; for  *)
(* a server that is already started it may return or raise (the address is *)
(* in use unless the port is 0), and what it raises leaves start().        *)
(* The jobs are followed with a dump1090 that does not answer: every fetch *)
(* ends on its timeout, so that the jobs cycle and no gauge is set.        *)
(***************************************************************************)
\* start() is called once more, up to `await self.svr.start(...)`
StartAgain ==
    /\ api = "idle"
    /\ starts >= MaxStarts
    /\ starts < MaxRestarts
    /\ api' = "start svr"
    /\ starts' = starts + 1
    /\ last' = NoEvent
    /\ UNCHANGED << config, origin, gauges, tasks, handles >>

\* self.svr.start raises in a call of start() after the first
StartRaises ==
    /\ api = "start svr"
    /\ starts > MaxStarts
    /\ api' = "idle"
    /\ last' = [op |-> "start raised"]
    /\ UNCHANGED << config, origin, gauges, tasks, handles, starts >>

RestartInit ==
    /\ cancelled_error_is_exception = FALSE
    /\ resource_is_http = TRUE
    /\ stats_time_periods \in TimePeriodConfigs
    /\ origin = None
    /\ gauges = NoGauges
    /\ tasks = << >>
    /\ receiver_task = 0
    /\ stats_task = 0
    /\ aircraft_task = 0
    /\ api = "idle"
    /\ starts = 0
    /\ last = NoEvent

\* The HTTP fetch of task t ends on its timeout
UpdaterTimedOut(t) ==
    /\ UpdaterFetched(t)
    /\ last'.response.what = "timeout"
    /\ last'.elapsed = 0

RestartNext ==
    \/ StartCall
    \/ StartResume
    \/ StartAgain
    \/ StartRaises
    \/ StopCall
    \/ StopResume
    \/ StopReturn
    \/ \E t \in TaskIds : UpdaterBegin(t)
    \/ \E t \in TaskIds : UpdaterTimedOut(t)
    \/ \E t \in TaskIds : UpdaterCancelled(t)

RestartSpec == RestartInit /\ [][RestartNext]_vars

(***************************************************************************)
(* Properties                                                              *)
(***************************************************************************)
HasError(log) == \E i \in 1..Len(log) : log[i].level = "error"

FetchFailures == {"timeout", "client error", "status", "not json", "cannot open"}

AllNone == << 0, 0, 0 >>

\* the exposition names the metric table declares
AircraftGaugeNames == { prefix \o SpecsAircraft[i][2] : i \in 1..Len(SpecsAircraft) }
StatsGaugeNames ==
    UNION { { prefix \o SpecsStats[g][2][k][2] : k \in 1..Len(SpecsStats[g][2]) }
            : g \in 1..Len(SpecsStats) }

\* C1: a cycle that fails does not end the job: every task either starts
\* cycles again and again, or is from some point on a task that stop() has
\* cancelled (a task that was never created starts nothing).
C1_JobsKeepCycling ==
    \A t \in 1..MaxTasks :
        \/ []<><<UpdaterBegin(t)>>_vars
        \/ <>[](t \in TaskIds => tasks[t].cancelled)

\* a cycle has just failed and its task, not cancelled, sleeps until the next
C1_Witness ==
    /\ last.op = "cycle"
    /\ HasError(last.log)
    /\ tasks[last.task].pc = "sleep"
    /\ ~tasks[last.task].cancelled

\* C2: a job interrupted by stop() never takes the error-logging path: no
\* cycle ends by catching the cancellation.
C2_CancelNotLogged ==
    last.op = "cycle" => last.response.what # "cancelled"

\* C3: once stop() has awaited its tasks all three handles are None, and a
\* stop() called with the three handles None cancels and awaits no task: it
\* goes straight to stopping the service and leaves every task as it is.
C3_SecondStop ==
    [][ /\ api' = "stop svr" => handles' = AllNone
        /\ (api = "idle" /\ handles = AllNone /\ last'.op = "stop")
              => (api' = "stop svr" /\ tasks' = tasks /\ handles' = AllNone) ]_vars

\* stop() was called after a stop() that had ended all the tasks
C3_Witness ==
    /\ last.op = "stop"
    /\ api = "stop svr"
    /\ Len(tasks) > 0
    /\ \A t \in TaskIds : tasks[t].pc = "done"

\* C4: a cancellation reaches a task only where it is suspended (not yet
\* started, awaiting its fetch, or asleep), and the step that delivers it
\* sets no gauge: the gauge sets of a cycle are all done or none is.
C4_CancelBetweenCycles ==
    [][ \A t \in TaskIds :
          (tasks[t].must_cancel /\ ~tasks'[t].must_cancel)
             => /\ tasks[t].pc \in {"created", "fetch", "sleep"}
                /\ gauges' = gauges ]_vars

\* a task was cancelled while it awaited its fetch, with gauges already set
C4_Witness ==
    /\ last.op = "cancelled"
    /\ last.at = "fetch"
    /\ \E g \in DOMAIN gauges : gauges[g] # NoValues

\* C5: a cycle whose fetch fails, in any of the ways a fetch can fail, sets
\* no gauge and leaves the origin alone, logs one error and nothing else,
\* and schedules the next cycle as any cycle does.
C5_FetchFailure ==
    [][ (last'.op = "cycle" /\ last'.response.what \in FetchFailures)
           => /\ gauges' = gauges
              /\ origin' = origin
              /\ Len(last'.log) = 1
              /\ last'.log[1].level = "error"
              /\ tasks'[last'.task].pc = "sleep"
              /\ last'.wait_seconds
                   = Interval(last'.kind, origin') - last'.elapsed ]_vars

\* a fetch has just failed after gauges had been set
C5_Witness ==
    /\ last.op = "cycle"
    /\ last.response.what \in FetchFailures
    /\ \E g \in DOMAIN gauges : gauges[g] # NoValues

\* C6: once the origin holds a position it holds one after every step.
C6_OriginStaysSet ==
    [][ Truthy(origin) => Truthy(origin') ]_vars

\* a receiver document without a longitude was read with the origin set
C6_Witness ==
    /\ last.op = "cycle"
    /\ last.kind = "receiver"
    /\ last.response = [what |-> "ok", body |-> "ReceiverNoLon"]
    /\ Truthy(origin)

\* C7: at the end of a receiver cycle the delay comes from
\* receiver_interval_origin_ok exactly when the origin is set at that
\* moment, and from receiver_interval otherwise.
C7_ReceiverInterval ==
    (last.op = "cycle" /\ last.kind = "receiver")
       => last.wait_seconds + last.elapsed
            = IF Truthy(origin) THEN receiver_interval_origin_ok
                                ELSE receiver_interval

\* the receiver cycle that found the origin already waits the long interval
C7_Witness ==
    /\ last.op = "cycle"
    /\ last.kind = "receiver"
    /\ \E i \in 1..Len(last.log) : last.log[i].level = "info"
    /\ last.wait_seconds = receiver_interval_origin_ok - last.elapsed

\* the greatest distance from org to a record of the table seen with a
\* position less than threshold seconds ago; 0 without an origin
RECURSIVE MaxRangeFrom(_, _, _)
MaxRangeFrom(org, records, i) ==
    IF i > Len(records) THEN 0
    ELSE LET a == records[i]
             rest == MaxRangeFrom(org, records, i + 1)
         IN  IF /\ Truthy(org)
                /\ "seen_pos" \in DOMAIN a
                /\ IsNum(a["seen_pos"])
                /\ a["seen_pos"].n # 0
                /\ a["seen_pos"].n < threshold
             THEN Max2(rest,
                       haversine_distance(org, Position(a["lat"], a["lon"])).value)
             ELSE rest

\* C8: an aircraft cycle measures the range from the origin as it is when
\* the cycle runs: the configured origin until a receiver cycle has replaced
\* it, the replaced one after.
C8_RangeFromCurrentOrigin ==
    [][ ( /\ last'.op = "cycle"
          /\ last'.kind = "aircraft"
          /\ last'.response.what = "ok"
          /\ "messages" \in DOMAIN Document(last'.response.body) )
           => gauges'[prefix \o "aircraft_recent_max_range"][[time_period |-> "latest"]]
                = Num(MaxRangeFrom(origin,
                                   Document(last'.response.body)["aircraft"], 1)) ]_vars

\* the range was measured from the configured origin
C8_Witness ==
    /\ last.op = "cycle"
    /\ last.kind = "aircraft"
    /\ last.response = [what |-> "ok", body |-> "AircraftBusy"]
    /\ origin = Position(Num(0), Num(0))
    /\ gauges[prefix \o "aircraft_recent_max_range"][[time_period |-> "latest"]]
         = Num(248629)

\* C9 as stated: every gauge of the registry holds a value in every state.
C9_EveryGaugeHasValue ==
    \A g \in DOMAIN gauges : gauges[g] # NoValues

\* C9 as the program has it: the gauges are those created at construction,
\* a series has a value from the first time it is set, and a series that
\* has a value keeps one.
C9_SetSeriesKeepValue ==
    /\ [](DOMAIN gauges = GaugeHandles(metrics))
    /\ [][ \A g \in DOMAIN gauges : DOMAIN gauges[g] \subseteq DOMAIN gauges'[g] ]_vars

\* a period that a later snapshot does not hold keeps its series
C9_Witness ==
    /\ last.op = "cycle"
    /\ last.response = [what |-> "ok", body |-> "StatsQuiet"]
    /\ \A g \in StatsGaugeNames : [time_period |-> "total"] \in DOMAIN gauges[g]

\* C10: every metric of the table is a gauge named prefix + label; a stats
\* cycle on a snapshot with every group leaves every stats gauge with a
\* sample, an aircraft cycle on a table with its message count leaves every
\* aircraft gauge with one, and no gauge loses its samples.
C10_AllExposed ==
    /\ [](AircraftGaugeNames \cup StatsGaugeNames = DOMAIN gauges)
    /\ [][ /\ ( /\ last'.op = "cycle"
                /\ last'.response.what = "ok"
                /\ last'.response.body \in {"StatsFull", "StatsQuiet"} )
              => \A g \in StatsGaugeNames : gauges'[g] # NoValues
           /\ ( /\ last'.op = "cycle"
                /\ last'.response.what = "ok"
                /\ last'.response.body \in {"AircraftBusy", "AircraftNone"} )
              => \A g \in AircraftGaugeNames : gauges'[g] # NoValues
           /\ \A g \in DOMAIN gauges : gauges[g] # NoValues => gauges'[g] # NoValues
       ]_vars

\* both a stats cycle and an aircraft cycle have completed
C10_Witness ==
    /\ Len(tasks) > 0
    /\ \A g \in AircraftGaugeNames \cup StatsGaugeNames : gauges[g] # NoValues


(***************************************************************************)
(* Properties of the transforms, stated on CallSpec                        *)
(***************************************************************************)
\* the (group, subgroup, internal name) triples of the metric table
Triples ==
    { <<"aircraft", "", SpecsAircraft[i][1]>> : i \in 1..Len(SpecsAircraft) }
    \cup UNION { { <<"stats", SpecsStats[g][1], SpecsStats[g][2][k][1]>>
                     : k \in 1..Len(SpecsStats[g][2]) }
                 : g \in 1..Len(SpecsStats) }

\* the gauge self.metrics holds for a triple
GaugeOf(triple) ==
    IF triple[1] = "aircraft"
    THEN DictGet(metrics.aircraft, triple[3])
    ELSE DictGet(DictGet(metrics.stats, triple[2]), triple[3])

NoDuplicates(seq) == \A i, j \in 1..Len(seq) : seq[i] = seq[j] => i = j

SubDoc(tp_stats, g) ==
    IF SpecsStats[g][1] = "" THEN tp_stats ELSE tp_stats[SpecsStats[g][1]]

\* every period of the document holds every subgroup of the table
WellGrouped(stats) ==
    \A p \in DOMAIN stats :
        \A g \in 1..Len(SpecsStats) :
            SpecsStats[g][1] = "" \/ SpecsStats[g][1] \in DOMAIN stats[p]

\* the <<group, field>> indices of the table
StatsIndex ==
    { <<g, k>> \in (1..Len(SpecsStats)) \X (1..14) : k <= Len(SpecsStats[g][2]) }

StatsGauge(x) == prefix \o SpecsStats[x[1]][2][x[2]][2]
StatsName(x) == SpecsStats[x[1]][2][x[2]][1]

\* gauge g holds value v for time period p
Holds(gs, g, p, v) ==
    /\ [time_period |-> p] \in DOMAIN gs[g]
    /\ gs[g][[time_period |-> p]] = v

\* C12: a field whose value is a sequence sets its gauge to the first
\* element of the sequence, a field whose value is a scalar sets it to that
\* value.
C12_FirstElement ==
    [][ (last'.op = "process_stats" /\ last'.exc = "")
           => \A i \in 1..Len(last'.time_periods) :
                 LET p == last'.time_periods[i]
                     stats == Document(last'.stats)
                 IN  p \in DOMAIN stats
                        => \A x \in StatsIndex :
                              LET d == SubDoc(stats[p], x[1])
                              IN  StatsName(x) \in DOMAIN d
                                     => Holds(gauges', StatsGauge(x), p,
                                              IF IsList(d[StatsName(x)])
                                              THEN d[StatsName(x)].items[1]
                                              ELSE d[StatsName(x)]) ]_vars

\* remote.accepted = [42, 0] was read and its gauge holds 42
C12_Witness ==
    /\ last.op = "process_stats"
    /\ last.exc = ""
    /\ Document(last.stats)["last1min"]["remote"]["accepted"]
          = List(<< Num(42), Num(0) >>)
    /\ Holds(gauges, prefix \o "stats_remote_accepted", "last1min", Num(42))
    /\ Holds(gauges, prefix \o "stats_messages_total", "last1min",
             Document(last.stats)["last1min"]["messages"])

\* the number of warnings of the log that name field `name` of group `key`
Warnings(log, key, name) ==
    Cardinality({ j \in 1..Len(log) : log[j] = LogRec("warning", "item", <<key, name>>) })

\* the periods of the call in which field x is absent from its sub-document
AbsentIn(stats, time_periods, x) ==
    { i \in 1..Len(time_periods) :
        /\ time_periods[i] \in DOMAIN stats
        /\ StatsName(x) \notin DOMAIN SubDoc(stats[time_periods[i]], x[1]) }

\* C13: in a period the snapshot holds, an absent field sets its gauge to
\* NaN; signal and peak_signal do so without a warning, any other field with
\* one warning that names it (one for each period it is absent from).
C13_MissingField ==
    [][ (last'.op = "process_stats" /\ last'.exc = "")
           => \A x \in StatsIndex :
                 LET absent == AbsentIn(Document(last'.stats), last'.time_periods, x)
                 IN  /\ \A i \in absent :
                           Holds(gauges', StatsGauge(x), last'.time_periods[i], NaN)
                     /\ Warnings(last'.log, SpecsStats[x[1]][1], StatsName(x))
                          = IF StatsName(x) \in {"signal", "peak_signal"}
                            THEN 0 ELSE Cardinality(absent) ]_vars

\* a snapshot without signal, peak_signal and remote.modes was processed:
\* three gauges hold NaN and the log holds one warning
C13_Witness ==
    /\ last.op = "process_stats"
    /\ last.stats = "StatsQuiet"
    /\ Holds(gauges, prefix \o "stats_local_signal_strength_dbFS", "last1min", NaN)
    /\ Holds(gauges, prefix \o "stats_local_peak_signal_strength_dbFS", "last1min", NaN)
    /\ Holds(gauges, prefix \o "stats_remote_modes", "last1min", NaN)
    /\ last.log = << LogRec("warning", "item", <<"remote", "modes">>) >>

\* C14: a configured period the snapshot does not hold is logged and nothing
\* is raised for it; no series with that period's label is written (each
\* keeps the value it had, or stays absent), and every configured period the
\* snapshot holds is processed, wherever it stands in the configured order.
C14_MissingPeriod ==
    [][ (last'.op = "process_stats" /\ WellGrouped(Document(last'.stats)))
           => /\ last'.exc = ""
              /\ \A i \in 1..Len(last'.time_periods) :
                    LET p == last'.time_periods[i]
                        stats == Document(last'.stats)
                    IN  IF p \in DOMAIN stats
                        THEN Holds(gauges', prefix \o "stats_tracks_all", p,
                                   stats[p]["tracks"]["all"])
                        ELSE /\ \E j \in 1..Len(last'.log) :
                                   last'.log[j] = LogRec("error", "time period", <<p>>)
                             /\ \A g \in StatsGaugeNames :
                                   IF [time_period |-> p] \in DOMAIN gauges[g]
                                   THEN Holds(gauges', g, p, gauges[g][[time_period |-> p]])
                                   ELSE [time_period |-> p] \notin DOMAIN gauges'[g]
      ]_vars

\* "total" was asked for first, of a snapshot that holds only "last1min":
\* the "total" series keep their earlier value, the "last1min" ones are set
C14_Witness ==
    /\ last.op = "process_stats"
    /\ last.stats = "StatsQuiet"
    /\ last.time_periods = << "total", "last1min" >>
    /\ Holds(gauges, prefix \o "stats_tracks_all", "total", Num(1))
    /\ Holds(gauges, prefix \o "stats_tracks_all", "last1min", Num(2))

\* C15: a call of process_aircraft on a table publishes max_range and, for
\* each of the eight octants, observed_with_direction and
\* max_range_by_direction with time_period "latest".
C15_DirectionsPublished ==
    (last.op = "process_aircraft" /\ "messages" \in DOMAIN Document(last.aircraft))
       => /\ last.exc = ""
          /\ \A dir \in DirectionSet :
                Cardinality({ g \in DOMAIN gauges :
                                [time_period |-> "latest", direction |-> dir]
                                    \in DOMAIN gauges[g] }) = 2

\* what the loop of process_aircraft counts on the table named d
LoopOf(d, org) ==
    AircraftLoop(Totals,
                 [ i \in 1..Len(Document(d)["aircraft"]) |->
                     Normalise(Document(d)["aircraft"][i]) ],
                 org, 1)

\* the octant that contains a bearing: 45 degrees wide, N centred on 0
OctantOf(angle) == Directions[(((angle + 2250) \div 4500) % Len(Directions)) + 1]

\* the records of table d seen with a position less than threshold seconds
\* ago whose bearing from org lies in octant dir
InOctant(d, org, dir) ==
    { i \in 1..Len(Document(d)["aircraft"]) :
        LET a == Normalise(Document(d)["aircraft"][i])
        IN  /\ IsNum(a["seen_pos"])
            /\ a["seen_pos"].n < threshold
            /\ OctantOf(relative_angle(org, Position(a["lat"], a["lon"]))) = dir }

\* C16: with the origin known, every record whose seen_pos is present and
\* below the threshold is counted in the octant that contains its bearing
\* from the origin.
C16_OneBucketEach ==
    (last.op = "process_aircraft" /\ last.aircraft = "AircraftAround" /\ Truthy(origin))
       => \A dir \in DirectionSet :
             LoopOf(last.aircraft, origin).aircraft_direction[dir]
                = Cardinality(InOctant(last.aircraft, origin, dir))

\* C17: the octant of a bearing is the octant of the bearing plus 360.
C17_FullTurn ==
    (last.op = "relative_direction" /\ last.angle >= 36000)
       => last.result = relative_direction(last.angle - 36000)

\* C18: the origin changes only in a receiver cycle whose document holds lat
\* and lon, and then to exactly that position; a receiver cycle whose
\* document lacks one of them logs nothing and leaves the origin alone.
C18_OriginWrites ==
    [][ /\ origin' # origin
           => /\ last'.op = "cycle"
              /\ last'.kind = "receiver"
              /\ last'.response.what = "ok"
        /\ (last'.op = "cycle" /\ last'.kind = "receiver" /\ last'.response.what = "ok")
           => LET receiver == Document(last'.response.body)
              IN  IF {"lat", "lon"} \subseteq DOMAIN receiver
                  THEN origin' = Position(receiver["lat"], receiver["lon"])
                  ELSE origin' = origin /\ last'.log = << >>
      ]_vars

\* a receiver cycle has replaced the configured origin
C18_Witness ==
    /\ last.op = "cycle"
    /\ last.kind = "receiver"
    /\ last.response = [what |-> "ok", body |-> "ReceiverFull"]
    /\ origin = Position(Num(1), Num(1))
    /\ \E g \in DOMAIN gauges : gauges[g] # NoValues

Expected(tp_stats, x) ==
    LET d == SubDoc(tp_stats, x[1])
    IN  IF StatsName(x) \notin DOMAIN d THEN NaN
        ELSE IF IsList(d[StatsName(x)]) THEN d[StatsName(x)].items[1]
        ELSE d[StatsName(x)]

\* C20: in a period the snapshot holds, with every subgroup, every gauge of
\* the table is set with that period's label, whichever fields are absent.
C20_FieldsIndependent ==
    [][ (last'.op = "process_stats" /\ WellGrouped(Document(last'.stats)))
           => \A i \in 1..Len(last'.time_periods) :
                 LET p == last'.time_periods[i]
                 IN  p \in DOMAIN Document(last'.stats)
                        => \A x \in StatsIndex :
                              Holds(gauges', StatsGauge(x), p,
                                    Expected(Document(last'.stats)[p], x)) ]_vars

\* fields were absent, and the fields after them in the same subgroup and in
\* the subgroups after it were set
C20_Witness ==
    /\ last.op = "process_stats"
    /\ last.stats = "StatsQuiet"
    /\ Holds(gauges, prefix \o "stats_local_signal_strength_dbFS", "last1min", NaN)
    /\ Holds(gauges, prefix \o "stats_local_noise_level_dbFS", "last1min", Num(2))
    /\ Holds(gauges, prefix \o "stats_remote_unknown_icao", "last1min", Num(2))
    /\ Holds(gauges, prefix \o "stats_tracks_single_message", "last1min", Num(2))


\* the records of table d, normalised, whose field `key` is a number below
\* the threshold
Below(d, key) ==
    { i \in 1..Len(Document(d)["aircraft"]) :
        LET a == Normalise(Document(d)["aircraft"][i])
        IN  IsNum(a[key]) /\ a[key].n < threshold }

\* C21: process_aircraft publishes observed = the number of records with
\* seen below the threshold and observed_with_position = the number of
\* records with a seen_pos below the threshold, 0 included.
C21_CountsPublished ==
    (last.op = "process_aircraft" /\ last.aircraft = "AircraftAround")
       => /\ Holds(gauges, prefix \o "recent_aircraft_observed", "latest",
                   Num(Cardinality(Below(last.aircraft, "seen"))))
          /\ Holds(gauges, prefix \o "recent_aircraft_with_position", "latest",
                   Num(Cardinality(Below(last.aircraft, "seen_pos"))))


\* C22: process_aircraft on records that lack keys completes without a
\* TypeError and publishes the counts, a record without seen, seen_pos, lat
\* or lon not contributing.
C22_PartialRecords ==
    (last.op = "process_aircraft" /\ last.aircraft = "AircraftPartial")
       => /\ last.exc # "TypeError"
          /\ Holds(gauges, prefix \o "recent_aircraft_observed", "latest",
                   Num(Cardinality(Below(last.aircraft, "seen"))))


\* C23: the gauge updates of process_aircraft are absolute: what the call
\* leaves in every aircraft series it sets is what it leaves there when no
\* series held a value before, and the same call made again on the same
\* table with the same origin changes nothing.
C23_AbsoluteSets ==
    [][ last'.op = "process_aircraft"
           => /\ process_aircraft(gauges', metrics, origin,
                                  Document(last'.aircraft)).gauges = gauges'
              /\ LET fresh == process_aircraft(NoGauges, metrics, origin,
                                               Document(last'.aircraft)).gauges
                 IN  \A g \in AircraftGaugeNames :
                        \A labels \in DOMAIN fresh[g] :
                           /\ labels \in DOMAIN gauges'[g]
                           /\ gauges'[g][labels] = fresh[g][labels] ]_vars

\* a table with 100 messages was processed after one with another count
C23_Witness ==
    /\ last.op = "process_aircraft"
    /\ last.aircraft = "AircraftBusy"
    /\ Holds(gauges, prefix \o "messages_total", "latest", Num(100))
    /\ Holds(gauges, prefix \o "recent_aircraft_observed", "latest", Num(2))
    /\ Holds(gauges, prefix \o "stats_messages_total", "total", Num(1))


\* the label of a bearing in [0, 360), in hundredths of a degree, by the
\* bounds of the eight octants
Octant(angle) ==
    CASE angle >= 33750 \/ angle < 2250 -> "N"
      [] angle >= 2250  /\ angle < 6750  -> "NE"
      [] angle >= 6750  /\ angle < 11250 -> "E"
      [] angle >= 11250 /\ angle < 15750 -> "SE"
      [] angle >= 15750 /\ angle < 20250 -> "S"
      [] angle >= 20250 /\ angle < 24750 -> "SW"
      [] angle >= 24750 /\ angle < 29250 -> "W"
      [] angle >= 29250 /\ angle < 33750 -> "NW"

\* C24: relative_direction maps an angle in [0, 360) to the label of the
\* octant it lies in, the octants being 45 degrees wide and centred on the
\* compass headings; it raises nothing.
C24_OctantBounds ==
    (last.op = "relative_direction" /\ last.angle < 36000)
       => last.result = [exc |-> "", value |-> Octant(last.angle)]

\* 337.5 degrees, where NW ends and N begins, was looked up
C24_Witness ==
    /\ last.op = "relative_direction"
    /\ last.angle = 33750
    /\ last.result.value = "N"


\* C25: relative_angle returns an angle in [0, 360), for which the octant
\* lookup is defined: 90 or 270 for a target on the origin's latitude (270
\* for the origin itself), else (360 + deg) mod 360 for a target to the
\* north and 180 + deg for one to the south, deg being strictly between -90
\* and 90.
C25_AngleInRange ==
    last.op = "relative_angle"
       => LET dlat == last.pos2.latitude.n - last.pos1.latitude.n
              dlon == last.pos2.longitude.n - last.pos1.longitude.n
          IN  /\ last.result \in 0..35999
              /\ relative_direction(last.result).exc = ""
              /\ dlat = 0 => last.result = IF dlon > 0 THEN 9000 ELSE 27000
              /\ dlat # 0 => /\ AtanDeg(dlon, dlat) \in (1 - 9000)..(9000 - 1)
                             /\ last.result = IF dlat > 0
                                              THEN (36000 + AtanDeg(dlon, dlat)) % 36000
                                              ELSE 18000 + AtanDeg(dlon, dlat)

\* a target to the north-west: deg is negative and the angle wraps to 315
C25_Witness ==
    /\ last.op = "relative_angle"
    /\ last.pos1 = Position(Num(1), Num(1))
    /\ last.pos2 = Position(Num(2), Num(0))
    /\ last.result = 31500


\* C26: no gauge is written by two jobs: no gauge of the stats group is one
\* of the aircraft group, a stats cycle leaves every aircraft gauge as it
\* was and an aircraft cycle every stats gauge, whatever the configured time
\* periods; a receiver cycle, and any step that is no cycle, changes no
\* gauge.
C26_DisjointWrites ==
    [][ /\ AircraftGaugeNames \cap StatsGaugeNames = {}
        /\ AircraftGaugeNames \cup StatsGaugeNames = DOMAIN gauges
        /\ IF last'.op = "cycle"
           THEN /\ last'.kind = "receiver" => gauges' = gauges
                /\ last'.kind = "stats"
                      => \A g \in AircraftGaugeNames : gauges'[g] = gauges[g]
                /\ last'.kind = "aircraft"
                      => \A g \in StatsGaugeNames : gauges'[g] = gauges[g]
           ELSE gauges' = gauges ]_vars

\* stats series and aircraft series both carry time_period "latest"
C26_Witness ==
    /\ last.op = "cycle"
    /\ last.kind = "stats"
    /\ stats_time_periods = << "latest", "last1min" >>
    /\ Holds(gauges, prefix \o "stats_messages_total", "latest", Num(1))
    /\ Holds(gauges, prefix \o "messages_total", "latest", Num(100))


\* C27: an aircraft cycle measures every record against one origin: the
\* cycle itself does not change the origin, the range it publishes is the
\* largest distance of its records from the origin it began with, and the
\* step that changes the origin touches no aircraft series.
C27_OneOriginPerCycle ==
    [][ /\ origin' # origin
           => \A g \in AircraftGaugeNames : gauges'[g] = gauges[g]
        /\ (last'.op = "cycle" /\ last'.kind = "aircraft")
           => /\ origin' = origin
              /\ ( /\ last'.response.what = "ok"
                   /\ "messages" \in DOMAIN Document(last'.response.body) )
                 => Holds(gauges', prefix \o "aircraft_recent_max_range", "latest",
                          Num(MaxRangeFrom(origin',
                                Document(last'.response.body)["aircraft"], 1)))
      ]_vars

\* an aircraft cycle ran after a receiver cycle had replaced the origin, and
\* measured from the new one
C27_Witness ==
    /\ last.op = "cycle"
    /\ last.kind = "aircraft"
    /\ last.response = [what |-> "ok", body |-> "AircraftBusy"]
    /\ origin = Position(Num(1), Num(1))
    /\ Holds(gauges, prefix \o "aircraft_recent_max_range", "latest", Num(111195))


\* the keys into self.metrics["aircraft"] that process_aircraft sets
AircraftSetKeys ==
    { AircraftWrites(Totals, Num(0))[n][1]
        : n \in 1..Len(AircraftWrites(Totals, Num(0))) }

\* C28: every key process_aircraft sets is a key of the registry built from
\* the aircraft table, and a call that raises has set no gauge.
C28_AllOrNothing ==
    [][ last'.op = "process_aircraft"
           => /\ AircraftSetKeys \subseteq DictKeys(metrics.aircraft)
              /\ last'.exc # "" => gauges' = gauges ]_vars


\* C29: a period document without one of its subgroup objects raises
\* nothing: the gauges of the other subgroups are set for that period.
C29_MissingSubgroup ==
    (last.op = "process_stats" /\ last.stats = "StatsNoTracks")
       => /\ last.exc = ""
          /\ Holds(gauges, prefix \o "stats_remote_unknown_icao", "last1min", Num(3))


\* the tasks of a kind that have not ended
Running(kind) == { t \in TaskIds : tasks[t].kind = kind /\ tasks[t].pc # "done" }

\* C30: at most one job of each kind is running, and none is once stop()
\* has returned (the caller is between calls and every handle is None).
C30_AtMostOneOfEach ==
    /\ \A kind \in {"receiver", "stats", "aircraft"} : Cardinality(Running(kind)) <= 1
    /\ (api = "idle" /\ handles = AllNone)
          => \A kind \in {"receiver", "stats", "aircraft"} : Running(kind) = {}

=============================================================================
